---- MODULE Spec2Model ----
(***************************************************************************)
(* Live-transcription session manager of KMCH-main: the Socket.IO handlers *)
(* of flaskapp5.py (connect/disconnect, start_live_transcription,          *)
(* audio_chunk, stop_live_transcription), the background threads they      *)
(* spawn, and DeepgramService (deepgram_service.py).                       *)
(*                                                                         *)
(* Text is a sequence of one-character strings, so that str.strip(), +=    *)
(* and slicing are computed and not assumed.  Handlers and threads are     *)
(* cut at the points where the code can be suspended (time.sleep, an       *)
(* await on the upstream connection, Thread.start), and every piece        *)
(* between two such points is one action.  request.sid inside a closure    *)
(* is read as the id of the connection whose handler built the closure.    *)
(***************************************************************************)
EXTENDS Integers, Sequences, FiniteSets, TLC

\* ------------------------------------------------------------------ bounds

\* Client events and upstream messages that change the state, in one behaviour
\* (an event or message the code ignores costs nothing).
MaxInputs == 3

\* Connection identifiers (request.sid).
Sids == {"s1", "s2"}

\* Transcripts the upstream service can put in a message.
Sentences == { <<"a">>, <<" ", "b">> }

\* language_code values a client can send; NoKey is a payload without the key.
NoKey == "<absent>"
LanguageInputs == {NoKey}

\* ------------------------------------------------------------------ text

None == "None"

\* str.strip(): leading and trailing whitespace removed.
RECURSIVE LStrip(_)
LStrip(s) == IF s # <<>> /\ Head(s) = " " THEN LStrip(Tail(s)) ELSE s

RECURSIVE RStrip(_)
RStrip(s) ==
    IF s # <<>> /\ s[Len(s)] = " " THEN RStrip(SubSeq(s, 1, Len(s) - 1)) ELSE s

Strip(s) == RStrip(LStrip(s))

\* s[:n]
Prefix(s, n) == SubSeq(s, 1, IF Len(s) < n THEN Len(s) ELSE n)

\* The slice length of translation[:200] in the fallback summary.
SummaryChars == 200

\* ------------------------------------------------------------------ summary

(* A reply of the summarization API is a sequence of tokens: "{" and "}",  *)
(* "x" for any text without braces, and one token per complete             *)
(* "key": "value" member, named by its key.                                *)
SummaryKeys == {"summary", "medical_condition", "treatment_plan", "followup_date"}

\* model.generate_content raising instead of replying.
Raises == <<"raises">>

Replies ==
    { <<"{", "summary", "medical_condition", "treatment_plan", "followup_date", "}">>,
      <<"x", "{", "summary", "medical_condition", "treatment_plan", "followup_date", "}", "x">>,
      <<"{", "summary", "}">>,
      <<"x">>,
      <<>>,
      <<"{">>,
      <<"x", "}">>,
      <<"{", "x", "}">>,
      <<"}", "{">>,
      <<"{", "summary", "}", "x", "{", "treatment_plan", "}">> }

\* str.find(c): the first index (from 0) of c, or -1.
Find(s, c) ==
    IF \E i \in 1..Len(s) : s[i] = c
    THEN (CHOOSE i \in 1..Len(s) : s[i] = c /\ \A j \in 1..(i - 1) : s[j] # c) - 1
    ELSE -1

\* str.rfind(c): the last index (from 0) of c, or -1.
RFind(s, c) ==
    IF \E i \in 1..Len(s) : s[i] = c
    THEN (CHOOSE i \in 1..Len(s) : s[i] = c /\ \A j \in (i + 1)..Len(s) : s[j] # c) - 1
    ELSE -1

\* s[a:b] for 0 <= a, 0 <= b (from 0, b excluded; empty when b <= a).
Slice(s, a, b) == SubSeq(s, a + 1, IF b < Len(s) THEN b ELSE Len(s))

(* json.loads on a token string: an object is "{", members, "}"; anything   *)
(* else raises.  The value is the dict, a function from the keys present.   *)
JsonValid(s) ==
    /\ Len(s) >= 2
    /\ s[1] = "{"
    /\ s[Len(s)] = "}"
    /\ \A i \in 2..(Len(s) - 1) : s[i] \in SummaryKeys

JsonLoads(s) == [k \in {s[i] : i \in 2..(Len(s) - 1)} |-> <<"v">>]

\* The dict returned when the reply holds no brace pair.
Fallback(translation) ==
    [k \in SummaryKeys |->
        CASE k = "summary" -> Prefix(translation, SummaryChars)
          [] k = "medical_condition" -> <<"Not extracted">>
          [] k = "treatment_plan" -> <<"Not extracted">>
          [] k = "followup_date" -> <<"Not specified">>]

(* generate_structured_medical_summary(model, translation) for one reply of *)
(* model.generate_content: [raised, value].                                 *)
generate_structured_medical_summary(reply, translation) ==
    IF reply = Raises THEN [raised |-> TRUE, value |-> <<>>]
    ELSE LET json_start == Find(reply, "{")
             json_end == RFind(reply, "}")
             json_str == Slice(reply, json_start, json_end + 1)
         IN IF json_start # -1 /\ json_end # -1
            THEN IF JsonValid(json_str)
                 THEN [raised |-> FALSE, value |-> JsonLoads(json_str)]
                 ELSE [raised |-> TRUE, value |-> <<>>]
            ELSE [raised |-> FALSE, value |-> Fallback(translation)]

\* ------------------------------------------------------------------ state

VARIABLES
    api_key,                \* whether DEEPGRAM_API_KEY is set in the environment
    clients,                \* the connection ids that send events
    active_transcriptions,  \* the registry: sid -> session entry, or NoSession
    services,               \* the DeepgramService instances, by creation order
    sleeping,               \* start handlers in time.sleep(0.5), by their service
    finalizers,             \* finalize_transcription threads
    disconnecting,          \* disconnect handlers waiting in service.finish()
    senders,                \* send_audio threads
    outbox,                 \* sid -> the events emitted to that client, in order
    clock,                  \* datetime.utcnow()
    nchunks,                \* audio chunks received so far (names the next one)
    inputs,                 \* client events and upstream messages consumed
    unhandled               \* exceptions that escaped a handler (history)

vars == <<api_key, clients, active_transcriptions, services, sleeping, finalizers,
          disconnecting, senders, outbox, clock, nchunks, inputs, unhandled>>

NoSession == [registered |-> FALSE]

Registered(sid) == active_transcriptions[sid].registered

\* DeepgramService.__init__, with the thread that will run start_transcription.
\* owner and heard are history: the connection the instance was made for, and
\* the messages on_message has processed.
NewService(sid) ==
    [ owner |-> sid,
      connection |-> "none",
      final_transcript |-> <<>>,
      last_interim |-> <<>>,
      active |-> FALSE,
      callback |-> None,
      thread |-> "spawned",
      started |-> "pending",
      audio |-> <<>>,
      heard |-> <<>> ]

\* The dict stored in active_transcriptions by handle_start_live_transcription.
NewSession(svc, language_code, now) ==
    [ registered |-> TRUE,
      service |-> svc,
      language_code |-> language_code,
      transcript_parts |-> <<>>,
      interim_transcript |-> <<>>,
      start_time |-> now ]

\* data.get('language_code', 'en-US')
LanguageCode(data) == IF data = NoKey THEN "en-US" ELSE data

Emit(sid, event) == [outbox EXCEPT ![sid] = Append(@, event)]

Init ==
    /\ api_key \in BOOLEAN
    /\ clients = {"s1"}
    /\ active_transcriptions = [sid \in Sids |-> NoSession]
    /\ services = <<>>
    /\ sleeping = {}
    /\ finalizers = {}
    /\ disconnecting = {}
    /\ senders = {}
    /\ outbox = [sid \in Sids |-> <<>>]
    /\ clock = 0
    /\ nchunks = 0
    /\ inputs = 0
    /\ unhandled = {}

\* ------------------------------------------------------------------ start

\* The except branch of handle_start_live_transcription saying nothing.
StartFailedSilently(sid) == outbox

\* The outbox after the except branch of handle_start_live_transcription.
StartFailed(sid) ==
    Emit(sid, [type |-> "live_transcription_error",
               error |-> <<"DEEPGRAM_API_KEY missing">>, by |-> 0])

(* handle_start_live_transcription up to time.sleep(0.5): the service is    *)
(* built (RuntimeError without an API key, reported by the except branch),  *)
(* the registry entry is written and the start_deepgram thread is spawned.  *)
handle_start_live_transcription(sid, data) ==
    /\ inputs < MaxInputs
    /\ inputs' = inputs + 1
    /\ IF ~api_key
       THEN /\ outbox' = StartFailed(sid)
            /\ UNCHANGED <<active_transcriptions, services, sleeping, clock>>
       ELSE LET svc == Len(services) + 1 IN
            /\ services' = Append(services, NewService(sid))
            /\ active_transcriptions' =
                 [active_transcriptions EXCEPT
                    ![sid] = NewSession(svc, LanguageCode(data), clock + 1)]
            /\ clock' = clock + 1
            /\ sleeping' = sleeping \cup {svc}
            /\ UNCHANGED outbox
    /\ UNCHANGED <<api_key, clients, finalizers, disconnecting, senders, nchunks, unhandled>>

\* What the start handler emits when its sleep is over.
StartReply(svc) ==
    [type |-> "transcription_started", status |-> "success", by |-> svc]

\* handle_start_live_transcription after time.sleep(0.5).
start_emit(svc) ==
    /\ svc \in sleeping
    /\ sleeping' = sleeping \ {svc}
    /\ outbox' = Emit(services[svc].owner, StartReply(svc))
    /\ UNCHANGED <<api_key, clients, active_transcriptions, services, finalizers,
                   disconnecting, senders, clock, nchunks, inputs, unhandled>>

\* send_transcript_to_client looking up one and the same sid for everybody.
RequestSidShared(s) == "s1"

(* The request.sid that send_transcript_to_client reads: the closure is     *)
(* made in the start handler of one connection and reads that connection's  *)
(* sid.                                                                     *)
RequestSid(s) == s.owner

(* start_transcription up to the await of connection.start: callback and    *)
(* buffers are set and the connection object is created.                    *)
start_transcription_begin(svc) ==
    /\ svc \in 1..Len(services)
    /\ services[svc].thread = "spawned"
    /\ services' = [services EXCEPT ![svc] =
                      [@ EXCEPT !.callback = RequestSid(services[svc]),
                                !.final_transcript = <<>>,
                                !.last_interim = <<>>,
                                !.connection = "created",
                                !.thread = "opening"]]
    /\ UNCHANGED <<api_key, clients, active_transcriptions, sleeping, finalizers,
                   disconnecting, senders, outbox, clock, nchunks, inputs, unhandled>>

\* The service once connection.start(options) has returned `result` (or raised).
StartResult(s, result) ==
    IF result
    THEN [s EXCEPT !.active = TRUE, !.connection = "open",
                   !.thread = "done", !.started = "ok"]
    ELSE [s EXCEPT !.connection = IF @ = "created" THEN "failed" ELSE @,
                   !.thread = "done", !.started = "failed"]

\* start_transcription from the return of connection.start to its own return.
start_transcription_end(svc) ==
    /\ svc \in 1..Len(services)
    /\ services[svc].thread = "opening"
    /\ \E result \in BOOLEAN :
         services' = [services EXCEPT ![svc] = StartResult(@, result)]
    /\ UNCHANGED <<api_key, clients, active_transcriptions, sleeping, finalizers,
                   disconnecting, senders, outbox, clock, nchunks, inputs, unhandled>>


\* ------------------------------------------------------------------ transcripts

\* The messages the upstream service can deliver to on_message.
Messages ==
    [channel : {TRUE}, alternatives : {TRUE}, transcript : Sentences,
     is_final : BOOLEAN]
    \cup { [channel |-> FALSE, alternatives |-> FALSE, transcript |-> <<>>,
            is_final |-> TRUE],
           [channel |-> TRUE, alternatives |-> FALSE, transcript |-> <<>>,
            is_final |-> FALSE],
           [channel |-> TRUE, alternatives |-> TRUE, transcript |-> <<>>,
            is_final |-> TRUE] }

\* on_message returning early only for a message without channel.
IgnoredWithoutChannel(msg) == ~msg.channel

\* on_message returns early: no channel, no alternatives or an empty transcript.
Ignored(msg) == ~msg.channel \/ ~msg.alternatives \/ msg.transcript = <<>>

\* What on_message does to the service's own buffers.
OnMessageService(s, sentence, is_final) ==
    IF is_final
    THEN [s EXCEPT !.final_transcript = @ \o sentence \o <<" ">>,
                   !.last_interim = <<>>,
                   !.heard = Append(@, [transcript |-> sentence, is_final |-> TRUE])]
    ELSE [s EXCEPT !.last_interim = sentence,
                   !.heard = Append(@, [transcript |-> sentence, is_final |-> FALSE])]

\* send_transcript_to_client leaving the interim text in place on a final one.
CallbackSessionKeepsInterim(session_data, transcript, is_final) ==
    IF is_final
    THEN [session_data EXCEPT !.transcript_parts = Append(@, transcript)]
    ELSE [session_data EXCEPT !.interim_transcript = transcript]

\* send_transcript_to_client putting a final text in front of the others.
CallbackSessionPrepends(session_data, transcript, is_final) ==
    IF is_final
    THEN [session_data EXCEPT !.transcript_parts = <<transcript>> \o @,
                              !.interim_transcript = <<>>]
    ELSE [session_data EXCEPT !.interim_transcript = transcript]

\* send_transcript_to_client appending whatever it is given, interim or final.
CallbackSessionAppendsAll(session_data, transcript, is_final) ==
    [session_data EXCEPT !.transcript_parts = Append(@, transcript),
                         !.interim_transcript = IF is_final THEN <<>> ELSE transcript]

\* What send_transcript_to_client does to the session entry it finds.
CallbackSession(session_data, transcript, is_final) ==
    IF is_final
    THEN [session_data EXCEPT !.transcript_parts = Append(@, transcript),
                              !.interim_transcript = <<>>]
    ELSE [session_data EXCEPT !.interim_transcript = transcript]

\* send_transcript_to_client emitting every fragment as a final one.
LiveTranscriptAlwaysFinal(svc, transcript, is_final) ==
    [type |-> "live_transcript", transcript |-> transcript,
     is_final |-> TRUE, by |-> svc]

\* The live_transcript event of send_transcript_to_client.
LiveTranscript(svc, transcript, is_final) ==
    [type |-> "live_transcript", transcript |-> transcript,
     is_final |-> is_final, by |-> svc]

\* send_transcript_to_client emitting although the sid has no session.
CallbackNoSessionEmits(svc, transcript, is_final) ==
    Emit(services[svc].owner, LiveTranscript(svc, transcript, is_final))

\* The outbox after send_transcript_to_client found no session: it returns.
CallbackNoSession(svc, transcript, is_final) == outbox

(* on_message for one upstream message of service svc, with the callback   *)
(* it awaits (send_transcript_to_client of the closure's connection).       *)
on_message(svc, msg) ==
    /\ inputs < MaxInputs
    /\ svc \in 1..Len(services)
    /\ services[svc].connection = "open"
    /\ IF Ignored(msg)
       THEN UNCHANGED <<services, active_transcriptions, outbox, inputs>>
       ELSE LET sid == services[svc].callback IN
            /\ inputs' = inputs + 1
            /\ services' = [services EXCEPT ![svc] =
                              OnMessageService(@, msg.transcript, msg.is_final)]
            /\ IF sid # None /\ Registered(sid)
               THEN /\ active_transcriptions' =
                         [active_transcriptions EXCEPT ![sid] =
                            CallbackSession(@, msg.transcript, msg.is_final)]
                    /\ outbox' = Emit(sid, LiveTranscript(svc, msg.transcript,
                                                          msg.is_final))
               ELSE /\ outbox' = CallbackNoSession(svc, msg.transcript, msg.is_final)
                    /\ UNCHANGED active_transcriptions
    /\ UNCHANGED <<api_key, clients, sleeping, finalizers, disconnecting, senders, clock,
                   nchunks, unhandled>>

\* ------------------------------------------------------------------ audio

\* Payloads of audio_chunk: base64 that decodes, and base64 that does not.
AudioInputs == {"pcm", "not-base64"}

(* handle_audio_chunk: nothing without a session; otherwise the chunk is    *)
(* decoded (an error is printed and dropped) and a send_audio thread made.  *)
handle_audio_chunk(sid, data) ==
    /\ inputs < MaxInputs
    /\ IF Registered(sid) /\ data = "pcm"
       THEN /\ inputs' = inputs + 1
            /\ nchunks' = nchunks + 1
            /\ senders' = senders \cup
                 {[svc |-> active_transcriptions[sid].service, chunk |-> nchunks + 1]}
       ELSE UNCHANGED <<nchunks, senders, inputs>>
    /\ UNCHANGED <<api_key, clients, active_transcriptions, services, sleeping, finalizers,
                   disconnecting, outbox, clock, unhandled>>

\* send_audio looking at the connection only, not at the active flag.
SendsAudioInactive(s) == s.connection # "none"

\* DeepgramService.send_audio: whether the chunk is handed to connection.send.
SendsAudio(s) == s.connection # "none" /\ s.active

\* The send_audio thread: connection.send succeeds only on an open connection.
send_audio(th) ==
    /\ th \in senders
    /\ senders' = senders \ {th}
    /\ \E sent \in BOOLEAN :
         IF SendsAudio(services[th.svc]) /\ sent
              /\ services[th.svc].connection = "open"
         THEN services' = [services EXCEPT ![th.svc].audio = Append(@, th.chunk)]
         ELSE UNCHANGED services
    /\ UNCHANGED <<api_key, clients, active_transcriptions, sleeping, finalizers,
                   disconnecting, outbox, clock, nchunks, inputs, unhandled>>

\* ------------------------------------------------------------------ finish

\* DeepgramService.finish before its await: the service is made inactive.
FinishEnter(s) == [s EXCEPT !.active = FALSE]

\* finish awaits connection.finish() only when a connection object exists.
FinishAwaits(s) == s.connection # "none"

(* The connection after connection.finish(): an open connection is closed;  *)
(* when the call raises, it may or may not have been closed.                *)
FinishClose(s, raised, closed) ==
    IF s.connection = "open" /\ (~raised \/ closed)
    THEN [s EXCEPT !.connection = "closed"]
    ELSE s

\* finish returning the accumulated text as it is, without strip().
FinishReturnUnstripped(s) == s.final_transcript

\* The value finish returns, on its normal and on its except path.
FinishReturn(s) == Strip(s.final_transcript)

\* The texts of the final messages among `heard`.
RECURSIVE Finals(_)
Finals(heard) ==
    IF heard = <<>> THEN <<>>
    ELSE IF Head(heard).is_final
         THEN <<Head(heard).transcript>> \o Finals(Tail(heard))
         ELSE Finals(Tail(heard))


\* ------------------------------------------------------------------ stop

\* The reply of handle_stop_live_transcription when the sid has no session.
NoSessionReply ==
    [type |-> "live_transcription_error",
     error |-> <<"No active transcription session">>, by |-> 0]

\* handle_stop_live_transcription returning without a word.
StopUnregisteredSilently(sid) == outbox

\* The outbox after a stop for a sid that has no session.
StopUnregistered(sid) == Emit(sid, NoSessionReply)

(* handle_stop_live_transcription: an error without a session, otherwise    *)
(* the finalize_transcription thread is spawned on the session's service.   *)
handle_stop_live_transcription(sid) ==
    /\ inputs < MaxInputs
    /\ inputs' = inputs + 1
    /\ IF ~Registered(sid)
       THEN /\ outbox' = StopUnregistered(sid)
            /\ UNCHANGED finalizers
       ELSE /\ finalizers' = finalizers \cup
                 {[id |-> inputs + 1, sid |-> sid,
                   svc |-> active_transcriptions[sid].service,
                   pc |-> "spawned", final_transcript |-> <<>>, segs |-> <<>>]}
            /\ UNCHANGED outbox
    /\ UNCHANGED <<api_key, clients, active_transcriptions, services, sleeping,
                   disconnecting, senders, clock, nchunks, unhandled>>

\* Thread t with its fields replaced.
Moved(t, new) == (finalizers \ {t}) \cup {new}

\* finalize_transcription from its start to the await inside finish().
finalize_finish(t) ==
    /\ t \in finalizers
    /\ t.pc = "spawned"
    /\ services' = [services EXCEPT ![t.svc] = FinishEnter(@)]
    /\ finalizers' =
         IF FinishAwaits(services[t.svc])
         THEN Moved(t, [t EXCEPT !.pc = "closing"])
         ELSE Moved(t, [t EXCEPT !.pc = "process",
                                 !.final_transcript = FinishReturn(services[t.svc]),
                                 !.segs = Finals(services[t.svc].heard)])
    /\ UNCHANGED <<api_key, clients, active_transcriptions, sleeping, disconnecting,
                   senders, outbox, clock, nchunks, inputs, unhandled>>

\* finalize_transcription from the end of connection.finish() to finish()'s return.
finalize_closed(t) ==
    /\ t \in finalizers
    /\ t.pc = "closing"
    /\ \E raised \in BOOLEAN, closed \in BOOLEAN :
         services' = [services EXCEPT ![t.svc] = FinishClose(@, raised, closed)]
    /\ finalizers' = Moved(t, [t EXCEPT !.pc = "process",
                                        !.final_transcript = FinishReturn(services[t.svc]),
                                        !.segs = Finals(services[t.svc].heard)])
    /\ UNCHANGED <<api_key, clients, active_transcriptions, sleeping, disconnecting,
                   senders, outbox, clock, nchunks, inputs, unhandled>>

\* The recording_file of a finished session.
RecordingFile == <<"recordings/live.txt">>

(* The event the try/except of finalize_transcription emits: the summary is *)
(* generated from the transcript, the transcript is written to a file and   *)
(* live_transcription_complete is emitted; any exception on the way is      *)
(* reported as live_transcription_error.  segs is history: the final        *)
(* messages the service had processed when finish() returned.               *)
FinalizeEvent(t, reply, written) ==
    LET english_transcript == t.final_transcript
        summary == generate_structured_medical_summary(reply, english_transcript)
    IN  IF summary.raised
        THEN [type |-> "live_transcription_error",
              error |-> <<"Failed to process transcript", "summary">>,
              by |-> t.svc]
        ELSE IF ~written
        THEN [type |-> "live_transcription_error",
              error |-> <<"Failed to process transcript", "write">>,
              by |-> t.svc]
        ELSE [type |-> "live_transcription_complete",
              success |-> TRUE,
              original_transcript |-> t.final_transcript,
              english_transcript |-> english_transcript,
              summary_data |-> summary.value,
              recording_file |-> RecordingFile,
              segs |-> t.segs,
              by |-> t.svc]

\* finalize_transcription ending without its cleanup.
RemovedNever(registry, sid) == registry

\* The registry after `if request.sid in active_transcriptions: del ...`.
Removed(registry, sid) ==
    IF registry[sid].registered THEN [registry EXCEPT ![sid] = NoSession]
    ELSE registry

(* finalize_transcription from the reply of the summarization call to the   *)
(* end of the thread: the try/except block emits, then the registry entry   *)
(* is deleted if there is one.                                              *)
finalize_process(t) ==
    /\ t \in finalizers
    /\ t.pc = "process"
    /\ \E reply \in Replies \cup {Raises}, written \in BOOLEAN :
         outbox' = Emit(t.sid, FinalizeEvent(t, reply, written))
    /\ active_transcriptions' = Removed(active_transcriptions, t.sid)
    /\ finalizers' = finalizers \ {t}
    /\ UNCHANGED <<api_key, clients, services, sleeping, disconnecting, senders,
                   clock, nchunks, inputs, unhandled>>

\* ------------------------------------------------------------------ disconnect

\* handle_disconnect leaving the entry where it is.
DeletedNot(registry, sid) == registry

\* The registry after `del active_transcriptions[request.sid]`.
Deleted(registry, sid) == [registry EXCEPT ![sid] = NoSession]

(* handle_disconnect up to the await inside finish(); without a connection  *)
(* object finish() returns at once and the entry is deleted in the same     *)
(* step.  A connection is disconnected once: no second disconnect of a sid  *)
(* arrives while the handler of the first is still running.                 *)
handle_disconnect(sid) ==
    /\ inputs < MaxInputs
    /\ ~\E d \in disconnecting : d.sid = sid
    /\ IF ~Registered(sid)
       THEN UNCHANGED <<services, disconnecting, active_transcriptions, inputs>>
       ELSE LET svc == active_transcriptions[sid].service IN
            /\ inputs' = inputs + 1
            /\ services' = [services EXCEPT ![svc] = FinishEnter(@)]
            /\ IF FinishAwaits(services[svc])
               THEN /\ disconnecting' = disconnecting \cup
                         {[id |-> inputs + 1, sid |-> sid, svc |-> svc]}
                    /\ UNCHANGED active_transcriptions
               ELSE /\ active_transcriptions' = Deleted(active_transcriptions, sid)
                    /\ UNCHANGED disconnecting
    /\ UNCHANGED <<api_key, clients, sleeping, finalizers, senders, outbox, clock,
                   nchunks, unhandled>>

(* handle_disconnect after finish(): del active_transcriptions[request.sid], *)
(* a KeyError when the entry is gone.                                        *)
disconnect_closed(d) ==
    /\ d \in disconnecting
    /\ disconnecting' = disconnecting \ {d}
    /\ \E raised \in BOOLEAN, closed \in BOOLEAN :
         services' = [services EXCEPT ![d.svc] = FinishClose(@, raised, closed)]
    /\ IF Registered(d.sid)
       THEN /\ active_transcriptions' = Deleted(active_transcriptions, d.sid)
            /\ UNCHANGED unhandled
       ELSE /\ unhandled' = unhandled \cup {<<"handle_disconnect", "KeyError">>}
            /\ UNCHANGED active_transcriptions
    /\ UNCHANGED <<api_key, clients, sleeping, finalizers, senders, outbox, clock,
                   nchunks, inputs>>

\* ------------------------------------------------------------------ system

Next ==
    \/ \E sid \in clients, data \in LanguageInputs :
         handle_start_live_transcription(sid, data)
    \/ \E svc \in 1..Len(services) : start_emit(svc)
    \/ \E svc \in 1..Len(services) : start_transcription_begin(svc)
    \/ \E svc \in 1..Len(services) : start_transcription_end(svc)
    \/ \E svc \in 1..Len(services), msg \in Messages : on_message(svc, msg)
    \/ \E sid \in clients, data \in AudioInputs : handle_audio_chunk(sid, data)
    \/ \E th \in senders : send_audio(th)
    \/ \E sid \in clients : handle_stop_live_transcription(sid)
    \/ \E t \in finalizers : finalize_finish(t)
    \/ \E t \in finalizers : finalize_closed(t)
    \/ \E t \in finalizers : finalize_process(t)
    \/ \E sid \in clients : handle_disconnect(sid)
    \/ \E d \in disconnecting : disconnect_closed(d)

Spec == Init /\ [][Next]_vars

\* Two connected clients and a configured API key.
InitTwo ==
    /\ api_key = TRUE
    /\ clients = Sids
    /\ active_transcriptions = [sid \in Sids |-> NoSession]
    /\ services = <<>>
    /\ sleeping = {}
    /\ finalizers = {}
    /\ disconnecting = {}
    /\ senders = {}
    /\ outbox = [sid \in Sids |-> <<>>]
    /\ clock = 0
    /\ nchunks = 0
    /\ inputs = 0
    /\ unhandled = {}

TwoSpec == InitTwo /\ [][Next]_vars

(* The scheduling the runtime gives: a spawned thread runs, a sleep ends, a *)
(* call to the summarization API returns.  Nothing makes the upstream       *)
(* service answer connection.finish(): the code sets no timeout on it, so   *)
(* finalize_closed and disconnect_closed carry no fairness.                 *)
LiveSpec ==
    /\ Spec
    /\ WF_vars(\E svc \in 1..Len(services) : start_emit(svc))
    /\ WF_vars(\E svc \in 1..Len(services) : start_transcription_begin(svc))
    /\ WF_vars(\E svc \in 1..Len(services) : start_transcription_end(svc))
    /\ WF_vars(\E th \in senders : send_audio(th))
    /\ WF_vars(\E t \in finalizers : finalize_finish(t))
    /\ WF_vars(\E t \in finalizers : finalize_process(t))


\* ------------------------------------------------------------------ claims

ServiceIds == 1..Len(services)

\* The events emitted to sid so far, as a set.
Emitted(sid) == {outbox[sid][k] : k \in 1..Len(outbox[sid])}

AllEmitted == UNION {Emitted(sid) : sid \in Sids}

\* The events a finalize_transcription thread has emitted.
FinalizeEvents ==
    {e \in AllEmitted :
        /\ e.type \in {"live_transcription_complete", "live_transcription_error"}
        /\ e.by > 0}

\* ' '.join(parts)
RECURSIVE Join(_)
Join(parts) ==
    IF parts = <<>> THEN <<>>
    ELSE IF Len(parts) = 1 THEN Head(parts)
    ELSE Head(parts) \o <<" ">> \o Join(Tail(parts))

\* C1: a start_live_transcription for a connection id that already has a
\* session is answered with live_transcription_error and leaves the session
\* of the first start in place (service, transcript_parts and start_time
\* unchanged).
C1_DuplicateStartRejected ==
    [][\A sid \in Sids, data \in LanguageInputs :
          (Registered(sid) /\ handle_start_live_transcription(sid, data))
          => /\ active_transcriptions'[sid] = active_transcriptions[sid]
             /\ Len(outbox'[sid]) = Len(outbox[sid]) + 1
             /\ outbox'[sid][Len(outbox'[sid])].type = "live_transcription_error"]_vars

\* C2: never two DeepgramService instances with active = true that were
\* created for the same connection id.
C2_OneActiveServicePerSid ==
    \A i \in ServiceIds, j \in ServiceIds :
        (i # j /\ services[i].owner = services[j].owner)
        => ~(services[i].active /\ services[j].active)

\* How many final messages the services made for sid have processed.
NumFinals(sid) ==
    LET mine == {j \in ServiceIds : services[j].owner = sid}
        f[S \in SUBSET mine] ==
            IF S = {} THEN 0
            ELSE LET j == CHOOSE x \in S : TRUE
                 IN Len(Finals(services[j].heard)) + f[S \ {j}]
    IN f[mine]

\* final_transcript as on_message builds it from the final messages alone.
RECURSIVE Accumulated(_)
Accumulated(finals) ==
    IF finals = <<>> THEN <<>>
    ELSE Head(finals) \o <<" ">> \o Accumulated(Tail(finals))

\* C3: every element of a session's transcript_parts is the text of a message
\* delivered with is_final = true, there are no more of them than final
\* messages, and a service's final_transcript is built from its final messages
\* only: interim text is never committed.
C3_OnlyFinalTextCommitted ==
    /\ \A sid \in Sids :
         Registered(sid) =>
           LET parts == active_transcriptions[sid].transcript_parts IN
           /\ Len(parts) <= NumFinals(sid)
           /\ \A k \in 1..Len(parts) :
                \E i \in ServiceIds :
                   /\ services[i].owner = sid
                   /\ \E h \in 1..Len(services[i].heard) :
                        /\ services[i].heard[h].is_final
                        /\ services[i].heard[h].transcript = parts[k]
    /\ \A i \in ServiceIds :
         services[i].final_transcript = Accumulated(Finals(services[i].heard))

\* C3's case: an interim message then a final one, and only the final one
\* committed.
C3_Witness ==
    \E sid \in Sids :
        /\ Registered(sid)
        /\ Len(active_transcriptions[sid].transcript_parts) = 1
        /\ LET heard == services[active_transcriptions[sid].service].heard IN
           /\ Len(heard) = 2
           /\ ~heard[1].is_final
           /\ heard[2].is_final
           /\ heard[1].transcript # heard[2].transcript

\* C4: stop_live_transcription for a connection id with no session emits
\* live_transcription_error ('No active transcription session') to the caller
\* and changes nothing else: no finalization thread, no call on any service,
\* the registry as it was.
C4_StopWithoutSessionIsReported ==
    [][\A sid \in Sids :
          (~Registered(sid) /\ handle_stop_live_transcription(sid))
          => /\ Len(outbox'[sid]) = Len(outbox[sid]) + 1
             /\ SubSeq(outbox'[sid], 1, Len(outbox[sid])) = outbox[sid]
             /\ outbox'[sid][Len(outbox'[sid])].type = "live_transcription_error"
             /\ outbox'[sid][Len(outbox'[sid])].error =
                  <<"No active transcription session">>
             /\ finalizers' = finalizers
             /\ services' = services
             /\ active_transcriptions' = active_transcriptions]_vars

\* C4's case: the error has been emitted for a connection with no session.
C4_Witness ==
    \E sid \in Sids :
        /\ ~Registered(sid)
        /\ \E e \in Emitted(sid) :
             /\ e.type = "live_transcription_error"
             /\ e.error = <<"No active transcription session">>

C6_EmptySessionCompletes ==
    \A e \in FinalizeEvents :
        (nchunks = 0 /\ services[e.by].heard = <<>>)
        => /\ e.type = "live_transcription_complete"
           /\ e.original_transcript = <<>>

\* C7: a failure of the summary step (the call raises, or its reply does not
\* parse) never turns the stop into a live_transcription_error.
C7_SummaryFailureAbsorbed ==
    \A e \in FinalizeEvents :
        e.type = "live_transcription_error" => e.error[2] # "summary"

\* C8: the summary_data of every live_transcription_complete has the four
\* fields summary, medical_condition, treatment_plan and followup_date.
C8_SummaryHasFourFields ==
    \A e \in AllEmitted :
        e.type = "live_transcription_complete"
        => DOMAIN e.summary_data = SummaryKeys

\* C9: the error event sent when writing the transcript file fails carries
\* the computed result (transcript and summary).
C9_WriteFailureCarriesResult ==
    \A e \in FinalizeEvents :
        (e.type = "live_transcription_error" /\ e.error[2] = "write")
        => {"original_transcript", "summary_data"} \subseteq DOMAIN e

\* C10: when opening the upstream connection failed, the start is answered
\* with live_transcription_error and never with transcription_started, and
\* the service is not active.
C10_FailedOpenIsReported ==
    \A i \in ServiceIds :
        services[i].started = "failed"
        => /\ ~services[i].active
           /\ ~\E e \in Emitted(services[i].owner) :
                 e.type = "transcription_started" /\ e.by = i
           /\ (i \notin sleeping
               => \E e \in Emitted(services[i].owner) :
                     e.type = "live_transcription_error" /\ e.by = i)

\* The step in which handle_disconnect returns for a sid that had a session.
DisconnectReturns(sid) ==
    \/ Registered(sid) /\ handle_disconnect(sid) /\ disconnecting' = disconnecting
    \/ \E d \in disconnecting : d.sid = sid /\ disconnect_closed(d)

\* C11: when the disconnect of a client that had a session has been handled,
\* the registry has no entry for its id, and a start for an id without an
\* entry succeeds: it stores a session on a new service, with empty
\* transcript_parts and an empty interim_transcript, and reports no error.
C11_DisconnectLeavesRoomForFreshStart ==
    [][\A sid \in Sids :
          /\ DisconnectReturns(sid) => ~Registered(sid)'
          /\ (api_key /\ ~Registered(sid)
                /\ \E data \in LanguageInputs : handle_start_live_transcription(sid, data))
             => /\ Registered(sid)'
                /\ active_transcriptions'[sid].service = Len(services) + 1
                /\ active_transcriptions'[sid].transcript_parts = <<>>
                /\ active_transcriptions'[sid].interim_transcript = <<>>
                /\ services'[Len(services) + 1] = NewService(sid)
                /\ outbox' = outbox]_vars

\* A session whose service was opened and then finished by a disconnect (no
\* finalize thread ever ran on it), and a fresh session of the same id.
C11_Witness ==
    \E sid \in Sids, i \in ServiceIds :
        /\ services[i].owner = sid
        /\ services[i].started = "ok"
        /\ ~services[i].active
        /\ disconnecting = {}
        /\ finalizers = {}
        /\ ~\E e \in FinalizeEvents : e.by = i
        /\ Registered(sid)
        /\ active_transcriptions[sid].service > i
        /\ active_transcriptions[sid].transcript_parts = <<>>
        /\ active_transcriptions[sid].interim_transcript = <<>>

\* The number of live_transcription_complete events sent for service svc.
NumComplete(svc) ==
    LET sent == outbox[services[svc].owner]
    IN  Cardinality({k \in 1..Len(sent) :
                       /\ sent[k].type = "live_transcription_complete"
                       /\ sent[k].by = svc})

\* C12: at most one live_transcription_complete is sent for one session,
\* however many stop_live_transcription events arrive for it.
C12_AtMostOneComplete ==
    \A i \in ServiceIds : NumComplete(i) <= 1

\* C13: every finalize_transcription thread a stop_live_transcription spawned
\* eventually sends its live_transcription_complete or
\* live_transcription_error (the step in which the thread ends), also when
\* connection.finish() never returns.
C13_StopEventuallyAnswered ==
    \A id \in 1..MaxInputs :
        (\E t \in finalizers : t.id = id) ~> ~(\E t \in finalizers : t.id = id)

\* The positions of the live_transcript events sent to sid.
LivePositions(sid) ==
    {k \in 1..Len(outbox[sid]) : outbox[sid][k].type = "live_transcript"}

\* The step in which service svc processes the transcript message msg while
\* the connection of its callback has a session.
Forwards(svc, msg) ==
    /\ ~Ignored(msg)
    /\ services[svc].callback # None
    /\ Registered(services[svc].callback)
    /\ on_message(svc, msg)

\* C14: every transcript message processed for a registered session is sent
\* to the client as exactly one live_transcript with the same text and the
\* same final flag, after everything sent before it: the events leave in the
\* order in which the messages were processed.
C14_EachTranscriptForwardedOnce ==
    [][\A svc \in ServiceIds, msg \in Messages :
          Forwards(svc, msg)
          => LET sid == services[svc].callback IN
             /\ Len(outbox'[sid]) = Len(outbox[sid]) + 1
             /\ SubSeq(outbox'[sid], 1, Len(outbox[sid])) = outbox[sid]
             /\ outbox'[sid][Len(outbox'[sid])].type = "live_transcript"
             /\ outbox'[sid][Len(outbox'[sid])].transcript = msg.transcript
             /\ outbox'[sid][Len(outbox'[sid])].is_final = msg.is_final
             /\ \A other \in Sids \ {sid} : outbox'[other] = outbox[other]]_vars

\* An interim and then a final message were processed by the service of a
\* session, and the client was sent the two in that order and nothing else.
C14_Witness ==
    \E sid \in Sids, first \in 1..MaxInputs, second \in 1..MaxInputs :
        /\ Registered(sid)
        /\ first < second
        /\ LivePositions(sid) = {first, second}
        /\ Len(services[active_transcriptions[sid].service].heard) = 2
        /\ LET heard == services[active_transcriptions[sid].service].heard IN
           /\ ~heard[1].is_final
           /\ heard[2].is_final
           /\ outbox[sid][first].transcript = heard[1].transcript
           /\ outbox[sid][first].is_final = heard[1].is_final
           /\ outbox[sid][second].transcript = heard[2].transcript
           /\ outbox[sid][second].is_final = heard[2].is_final

\* The last live_transcript event sent to sid.
LastLive(sid) ==
    outbox[sid][CHOOSE k \in LivePositions(sid) : \A j \in LivePositions(sid) : j <= k]

\* C15: a final transcript message appends its text to transcript_parts and
\* empties interim_transcript; an interim one replaces interim_transcript and
\* leaves transcript_parts alone.  Hence, when the last message processed for
\* the session came from the session's own service, interim_transcript is its
\* text if it was interim and empty if it was final.
C15_TranscriptUpdatesSession ==
    [][/\ \A svc \in ServiceIds, msg \in Messages :
            Forwards(svc, msg)
            => LET sid == services[svc].callback
                   old == active_transcriptions[sid]
                   new == active_transcriptions'[sid]
               IN  IF msg.is_final
                   THEN /\ new.transcript_parts =
                             Append(old.transcript_parts, msg.transcript)
                        /\ new.interim_transcript = <<>>
                   ELSE /\ new.transcript_parts = old.transcript_parts
                        /\ new.interim_transcript = msg.transcript
       /\ \A sid \in Sids :
            (/\ Registered(sid)'
             /\ LivePositions(sid)' # {}
             /\ LastLive(sid)'.by = active_transcriptions'[sid].service)
            => active_transcriptions'[sid].interim_transcript =
                 IF LastLive(sid)'.is_final THEN <<>> ELSE LastLive(sid)'.transcript]_vars

\* A session after a final and then an interim message: one committed part
\* and the interim text of the later message.
C15_Witness ==
    \E sid \in Sids :
        /\ Registered(sid)
        /\ Len(active_transcriptions[sid].transcript_parts) = 1
        /\ active_transcriptions[sid].interim_transcript # <<>>
        /\ Cardinality(LivePositions(sid)) = 2
        /\ \E k \in LivePositions(sid) : outbox[sid][k].is_final
        /\ ~LastLive(sid).is_final
        /\ active_transcriptions[sid].interim_transcript = LastLive(sid).transcript

\* C16: transcription_started is sent for a service only when its upstream
\* connection has been opened successfully and the service is active.
C16_StartedOnlyAfterOpen ==
    [][\A svc \in ServiceIds :
          start_emit(svc)
          => services[svc].started = "ok" /\ services[svc].active]_vars

\* C17: whenever a connection id has no registry entry, no service created
\* for that id has an open connection or is active.
C17_NoUpstreamLeak ==
    \A sid \in Sids, i \in ServiceIds :
        (~Registered(sid) /\ services[i].owner = sid)
        => services[i].connection # "open" /\ ~services[i].active

\* C18: when a disconnect and the finalization of a stop race on one session,
\* the removal of the entry raises no KeyError in either of them.
C18_RaceRaisesNoKeyError ==
    unhandled = {}

\* C19: once a finalize_transcription thread has sent its event, complete or
\* error alike, the session it finalized is not in the registry, and a stop
\* that then finds no entry is answered with the no-active-session error.
C19_FinalizedSessionIsGone ==
    [][\A sid \in Sids :
          /\ Registered(sid)'
             => ~\E k \in 1..Len(outbox'[sid]) :
                   /\ outbox'[sid][k] \in FinalizeEvents'
                   /\ outbox'[sid][k].by = active_transcriptions'[sid].service
          /\ (/\ \E e \in FinalizeEvents : e \in Emitted(sid)
              /\ ~Registered(sid)
              /\ handle_stop_live_transcription(sid))
             => /\ outbox'[sid] = Append(outbox[sid], NoSessionReply)
                /\ finalizers' = finalizers
                /\ ~Registered(sid)']_vars

\* A finalization that ended in live_transcription_error, after which the
\* session is gone and the next stop was told that there is none.
C19_Witness ==
    \E sid \in Sids, k \in 1..MaxInputs :
        /\ k < Len(outbox[sid])
        /\ outbox[sid][k] \in FinalizeEvents
        /\ outbox[sid][k].type = "live_transcription_error"
        /\ outbox[sid][k + 1] = NoSessionReply
        /\ ~Registered(sid)

\* The activities in progress for sid: a start whose upstream connection is
\* being opened, a finalize thread between its first and its last step, a
\* disconnect handler waiting in finish().
InProgress(sid) ==
    {<<"start", i>> : i \in {j \in ServiceIds : /\ services[j].owner = sid
                                                 /\ services[j].thread = "opening"}}
    \cup {<<"finalize", t.id>> : t \in {u \in finalizers : /\ u.sid = sid
                                                          /\ u.pc # "spawned"}}
    \cup {<<"disconnect", d.id>> : d \in {c \in disconnecting : c.sid = sid}}

\* C20: the events of one session are processed one after the other: at no
\* time are two activities of the same connection id in progress.
C20_SequentialPerSession ==
    \A sid \in Sids : Cardinality(InProgress(sid)) <= 1

\* C21: the chunks a service hands to connection.send are handed over in the
\* order in which the client sent them (chunks are numbered as they arrive).
C21_AudioForwardedInOrder ==
    \A i \in ServiceIds :
        \A k \in 1..(Len(services[i].audio) - 1) :
            services[i].audio[k] < services[i].audio[k + 1]

\* Whether a is b with some elements left out.
RECURSIVE IsSubsequence(_, _)
IsSubsequence(a, b) ==
    IF a = <<>> THEN TRUE
    ELSE IF b = <<>> THEN FALSE
    ELSE IF Head(a) = Head(b) THEN IsSubsequence(Tail(a), Tail(b))
    ELSE IsSubsequence(a, Tail(b))

\* C22: while a session is registered its transcript_parts only grows at the
\* end (each value is a prefix of the next), and the final texts its service
\* produced are all in it, in the order in which they were produced.
C22_PartsAppendOnlyInOrder ==
    [][\A sid \in Sids :
          /\ (/\ Registered(sid)
              /\ Registered(sid)'
              /\ active_transcriptions'[sid].service = active_transcriptions[sid].service)
             => LET old == active_transcriptions[sid].transcript_parts
                    new == active_transcriptions'[sid].transcript_parts
                IN  Len(old) <= Len(new) /\ SubSeq(new, 1, Len(old)) = old
          /\ Registered(sid)'
             => IsSubsequence(Finals(services'[active_transcriptions'[sid].service].heard),
                              active_transcriptions'[sid].transcript_parts)]_vars

\* A session with two different final texts, committed in the order heard.
C22_Witness ==
    \E sid \in Sids :
        /\ Registered(sid)
        /\ LET parts == active_transcriptions[sid].transcript_parts
               heard == services[active_transcriptions[sid].service].heard
           IN  /\ Len(parts) = 2
               /\ parts[1] # parts[2]
               /\ parts = Finals(heard)

\* C23: an audio_chunk never answers the client and never changes the
\* registry or anything of a service but its forwarded audio, and a chunk is
\* forwarded only by a service that is active; a chunk for a sid without a
\* session, for a service still opening, or whose send raises is dropped.
C23_AudioChunkOnlyForwards ==
    [][/\ \A sid \in Sids, data \in AudioInputs :
            handle_audio_chunk(sid, data)
            => /\ outbox' = outbox
               /\ active_transcriptions' = active_transcriptions
               /\ services' = services
               /\ (~Registered(sid) => senders' = senders)
       /\ \A th \in senders :
            send_audio(th)
            => /\ outbox' = outbox
               /\ active_transcriptions' = active_transcriptions
               /\ \A i \in ServiceIds :
                    [services'[i] EXCEPT !.audio = services[i].audio] = services[i]
               /\ services'[th.svc].audio # services[th.svc].audio
                  => services[th.svc].active]_vars

\* A chunk was sent to the only service while its connection was still being
\* opened, its send_audio thread has run, and nothing was forwarded.
C23_Witness ==
    /\ Len(services) = 1
    /\ services[1].thread = "opening"
    /\ nchunks > 0
    /\ senders = {}
    /\ services[1].audio = <<>>
    /\ outbox[services[1].owner] = <<>>

\* C24: a transcript message of a service created for connection id A changes
\* the registry entry of A at most and is emitted to the room of A at most:
\* the entry and the room of every other connection id stay as they are.
C24_SessionIsolation ==
    [][\A svc \in ServiceIds, msg \in Messages :
          on_message(svc, msg)
          => \A other \in Sids \ {services[svc].owner} :
                /\ active_transcriptions'[other] = active_transcriptions[other]
                /\ outbox'[other] = outbox[other]]_vars

\* Two connection ids with a session each; the service of one has delivered a
\* final text, which is in that session and in that room only.
C24_Witness ==
    \E a \in Sids, b \in Sids :
        /\ a # b
        /\ Registered(a)
        /\ Registered(b)
        /\ Len(services[active_transcriptions[a].service].heard) = 1
        /\ Len(active_transcriptions[a].transcript_parts) = 1
        /\ LivePositions(a) # {}
        /\ active_transcriptions[b].transcript_parts = <<>>
        /\ active_transcriptions[b].interim_transcript = <<>>
        /\ LivePositions(b) = {}

\* The step in which finish() returns `value` to the finalize thread t.
FinishReturnsTo(t, value) ==
    /\ t.pc # "process"
    /\ finalize_finish(t) \/ finalize_closed(t)
    /\ \E u \in finalizers' :
         u.id = t.id /\ u.pc = "process" /\ u.final_transcript = value

\* What the claim lets finish() return on service s: the accumulated final
\* text, trimmed, and so the empty text when no connection was ever made.
SafeFinishValue(s) ==
    IF s.connection = "none" THEN <<>> ELSE Strip(s.final_transcript)

\* C25: finish() returns the accumulated final transcript, trimmed (the empty
\* text when no connection was ever opened), also when closing the upstream
\* connection raises, and the service is not active when it returns.
C25_FinishIsSafe ==
    [][/\ \A t \in finalizers :
            (\E value \in {u.final_transcript : u \in finalizers'} :
                FinishReturnsTo(t, value))
            => /\ FinishReturnsTo(t, SafeFinishValue(services[t.svc]))
               /\ ~services'[t.svc].active
       /\ \A d \in disconnecting :
            disconnect_closed(d) => ~services'[d.svc].active]_vars

\* The services on which finish() has been called and has set active = False:
\* those a finalize thread has got into, those a disconnect handler is
\* waiting on, and those whose finalization has sent its event.
Finished ==
    {t.svc : t \in {u \in finalizers : u.pc # "spawned"}}
    \cup {d.svc : d \in disconnecting}
    \cup {e.by : e \in FinalizeEvents}

\* C26: once finish() has been called on a service, the service is never
\* active again and forwards no further audio, also when its
\* start_transcription was still in flight at that time.
C26_FinishedStaysInactive ==
    [][\A i \in ServiceIds :
          i \in Finished
          => /\ ~services'[i].active
             /\ services'[i].audio = services[i].audio]_vars

\* C27: while a session is registered, the trimmed final_transcript of its
\* service is its transcript_parts joined by single spaces (trimmed), also
\* after a disconnect or a repeated start on the same connection id.
C27_AccumulatorsAgree ==
    \A sid \in Sids :
        Registered(sid)
        => Strip(services[active_transcriptions[sid].service].final_transcript)
             = Strip(Join(active_transcriptions[sid].transcript_parts))

\* C28: a transcript message processed when the connection id of the callback
\* has no registry entry changes no registry entry and emits nothing.
C28_TranscriptWithoutSessionIsDropped ==
    [][\A svc \in ServiceIds, msg \in Messages :
          (/\ services[svc].callback # None
           /\ ~Registered(services[svc].callback)
           /\ on_message(svc, msg))
          => /\ active_transcriptions' = active_transcriptions
             /\ outbox' = outbox]_vars

\* A service has processed a message while its connection id had no entry:
\* no live_transcript of that service was sent and no entry exists.
C28_Witness ==
    \E i \in ServiceIds :
        /\ services[i].heard # <<>>
        /\ ~Registered(services[i].owner)
        /\ \A k \in LivePositions(services[i].owner) :
             outbox[services[i].owner][k].by # i
        /\ \A j \in ServiceIds : services[j].owner = services[i].owner => j = i

\* C29: when DeepgramService() raises for want of DEEPGRAM_API_KEY, the start
\* is answered with live_transcription_error and with nothing else; no
\* service and no thread are made and the registry stays as it was.
C29_FailedConstructionIsReported ==
    [][\A sid \in Sids, data \in LanguageInputs :
          (~api_key /\ handle_start_live_transcription(sid, data))
          => /\ Len(outbox'[sid]) = Len(outbox[sid]) + 1
             /\ SubSeq(outbox'[sid], 1, Len(outbox[sid])) = outbox[sid]
             /\ outbox'[sid][Len(outbox'[sid])].type = "live_transcription_error"
             /\ services' = services
             /\ sleeping' = sleeping
             /\ active_transcriptions' = active_transcriptions]_vars

\* A start without API key was answered with an error, and there is neither
\* a session nor a service nor a pending transcription_started.
C29_Witness ==
    \E sid \in Sids :
        /\ ~api_key
        /\ \E e \in Emitted(sid) : e.type = "live_transcription_error"
        /\ ~\E e \in Emitted(sid) : e.type = "transcription_started"
        /\ ~Registered(sid)
        /\ services = <<>>
        /\ sleeping = {}

\* C30: a message without channel, without alternatives or with an empty
\* transcript leaves final_transcript and last_interim as they are and does
\* not reach the callback (no entry changes, nothing is emitted), whatever its
\* is_final flag.
C30_EmptyMessageIgnored ==
    [][\A svc \in ServiceIds, msg \in Messages :
          (/\ ~msg.channel \/ ~msg.alternatives \/ msg.transcript = <<>>
           /\ on_message(svc, msg))
          => /\ services'[svc].final_transcript = services[svc].final_transcript
             /\ services'[svc].last_interim = services[svc].last_interim
             /\ active_transcriptions' = active_transcriptions
             /\ outbox' = outbox]_vars

\* A service with an open connection and an interim text in its buffer, to
\* which a final message with an empty transcript is delivered.
C30_Witness ==
    \E svc \in ServiceIds, msg \in Messages :
        /\ msg.transcript = <<>>
        /\ msg.is_final
        /\ services[svc].last_interim # <<>>
        /\ Registered(services[svc].owner)
        /\ ENABLED on_message(svc, msg)

====
